---- MODULE Spec2Model ----
(***************************************************************************)
(* Self-adaptive Gauss-Kronrod quadrature                                  *)
(* (hydra/GaussKronrodAdaptiveQuadrature.h).                               *)
(*                                                                         *)
(* The header under src/ holds the class: its fields, the constructors,    *)
(* the setters, InitNodes, CountNodesToProcess, SetParametersTable and     *)
(* GetError.  Integrate, Accumulate and UpdateNodes are only declared      *)
(* there (their bodies live in detail/GaussKronrodAdaptiveQuadrature.inl,  *)
(* which is not available); they are modelled from the specification       *)
(* (sections 4.4 - 4.6) and marked so where they are defined.              *)
(*                                                                         *)
(* Numbers.  GReal_t abscissas are modelled as integers on a dyadic grid:  *)
(* the real r is the integer r * Scale.  Scale is chosen so that every     *)
(* division the program performs on them (by NBIN in InitNodes, by 2 at a  *)
(* bisection) is exact on the inputs enumerated here; ExactArithmetic      *)
(* states this.  With NBIN a power of two the same inputs are computed     *)
(* without rounding in IEEE double as well.                                *)
(* Errors and tolerances are integers in units of 2^-54, and the           *)
(* Gauss/Kronrod difference delta in units of 2^-36, so that               *)
(* (200*|delta|)^1.5 is again in error units; machine epsilon 2^-52 is 4.  *)
(***************************************************************************)
EXTENDS Integers, Sequences, FiniteSets, TLC

\* template<size_t NRULE, size_t NBIN, ...>: the instantiation modelled.
NBIN == 2
NRULE == 3

\* Ceiling on the size of the node table (the subdivision budget of 4.5).
MaxNodes == 5

\* std::numeric_limits<GReal_t>::epsilon() = 2^-52, in units of 2^-54.
Epsilon == 4

RECURSIVE Pow2(_)
Pow2(n) == IF n = 0 THEN 1 ELSE 2 * Pow2(n - 1)

\* One unit of the real line, in grid steps.
Scale == NBIN * Pow2(MaxNodes - NBIN)

\* Inputs: domain bounds (1.0 and 2.0), tolerances, reduced Kronrod sums and
\* Kronrod-Gauss differences (200*|d| is a perfect square for each).
BoundValues == {Scale, 2 * Scale}
Tolerances == {16, 100000}
KronrodValues == {1, 2}
DeltaValues == {0, 2, -2}

VARIABLES
    fIterationNumber,   \* GUInt_t
    fXLower,            \* GReal_t
    fXUpper,            \* GReal_t
    fMaxRelativeError,  \* GReal_t
    fNodesTable,        \* node_table_h: sequence of nodes
    fParametersTable,   \* parameters_table_d: sequence of parameter records
    pc,                 \* position inside Integrate, "idle" outside of it
    result,             \* the std::pair Integrate returned last
    lastOp,             \* history: the public operation that ran last
    staleBefore,        \* history: what the table InitNodes last overwrote was
    retiredSum,         \* history: sum of the integrals of the nodes, as retired
    probe               \* history kept by the specifications that name one

vars == <<fIterationNumber, fXLower, fXUpper, fMaxRelativeError, fNodesTable,
          fParametersTable, pc, result, lastOp, staleBefore, retiredSum,
          probe>>

----------------------------------------------------------------------------
\* Arithmetic helpers

Abs(x) == IF x < 0 THEN -x ELSE x

Max(a, b) == IF a >= b THEN a ELSE b

\* a / b on GReal_t, for operands where the quotient is on the grid.
RealDiv(a, b) == IF a >= 0 THEN a \div b ELSE -((-a) \div b)

IsExact(a, b) == (Abs(a) % b) = 0

\* Integer square root (floor); exact on the perfect squares used here.
RECURSIVE SqrtFrom(_, _)
SqrtFrom(x, r) == IF (r + 1) * (r + 1) > x THEN r ELSE SqrtFrom(x, r + 1)

Sqrt(x) == SqrtFrom(x, 0)

\* std::pow(x, 1.5) = x * sqrt(x)
Pow15(x) == x * Sqrt(x)

RECURSIVE SumSeq(_)
SumSeq(s) == IF s = <<>> THEN 0 ELSE Head(s) + SumSeq(Tail(s))

----------------------------------------------------------------------------
\* node_t = tuple<process, bin, lower, upper, integral, error>

Node(p, b, lo, hi, in, er) ==
    [process |-> p, bin |-> b, lower |-> lo, upper |-> hi,
     integral |-> in, error |-> er]

\* A value-initialised node_t, as std::vector::resize appends it.
DefaultNode == Node(FALSE, 0, 0, 0, 0, 0)

\* fNodesTable.resize(n)
Resize(table, n) ==
    [k \in 1..n |-> IF k <= Len(table) THEN table[k] ELSE DefaultNode]

\* GetError(delta) = max(epsilon, pow(200*fabs(delta), 1.5))
\* GetError() without std::fabs: the power of a negative base is no number,
\* and std::max(epsilon, NaN) keeps epsilon.
GetError_NoAbs(delta) == Max(Epsilon, Pow15(200 * delta))

GetError(delta) == Max(Epsilon, Pow15(200 * Abs(delta)))

\* InitNodes() with a bin id of 0 in every node.
InitNodes_SameBin(table, xl, xu) ==
    LET delta == RealDiv(xu - xl, NBIN) IN
    [k \in 1..NBIN |-> Node(TRUE, 0, xl + (k - 1) * delta, xl + k * delta, 0, 0)]

\* InitNodes() with the upper bound computed from i instead of i+1.
InitNodes_OffByOne(table, xl, xu) ==
    LET delta == RealDiv(xu - xl, NBIN) IN
    [k \in 1..NBIN |-> Node(TRUE, k - 1, xl + (k - 1) * delta,
                            xl + (k - 1) * delta, 0, 0)]

\* InitNodes() that leaves process, integral and error of the kept nodes alone.
InitNodes_KeepResults(table, xl, xu) ==
    LET delta == RealDiv(xu - xl, NBIN)
        t == Resize(table, NBIN)
    IN  [k \in 1..NBIN |->
            [t[k] EXCEPT !.bin = k - 1,
                         !.lower = xl + (k - 1) * delta,
                         !.upper = xl + k * delta]]

\* InitNodes() that computes the bounds from 0 instead of from fXLower.
InitNodes_NoOffset(table, xl, xu) ==
    LET delta == RealDiv(xu - xl, NBIN) IN
    [k \in 1..NBIN |-> Node(TRUE, k - 1, (k - 1) * delta, k * delta, 0, 0)]

\* InitNodes() without the resize: a longer table keeps its tail.
InitNodes_NoResize(table, xl, xu) ==
    LET delta == RealDiv(xu - xl, NBIN)
        t == Resize(table, Max(NBIN, Len(table)))
    IN  [k \in 1..Len(t) |->
            IF k > NBIN THEN t[k]
            ELSE Node(TRUE, k - 1, xl + (k - 1) * delta, xl + k * delta, 0, 0)]

\* InitNodes() without the assignment of the bin id.
InitNodes_KeepBin(table, xl, xu) ==
    LET delta == RealDiv(xu - xl, NBIN)
        t == Resize(table, NBIN)
    IN  [k \in 1..NBIN |->
            [t[k] EXCEPT !.process = TRUE,
                         !.lower = xl + (k - 1) * delta,
                         !.upper = xl + k * delta,
                         !.integral = 0,
                         !.error = 0]]

\* InitNodes(): resize to NBIN, then overwrite the six fields of node i.
InitNodes(table, xl, xu) ==
    LET delta == RealDiv(xu - xl, NBIN)
        t == Resize(table, NBIN)
    IN  [k \in 1..NBIN |->
            [t[k] EXCEPT !.process = TRUE,
                         !.bin = k - 1,
                         !.lower = xl + (k - 1) * delta,
                         !.upper = xl + k * delta,
                         !.integral = 0,
                         !.error = 0]]

\* The nodes whose process flag is set, as table positions in table order.
RECURSIVE ActivePositions(_, _)
ActivePositions(table, k) ==
    IF k > Len(table) THEN <<>>
    ELSE (IF table[k].process THEN <<k>> ELSE <<>>) \o ActivePositions(table, k + 1)

\* CountNodesToProcess() counting the cleared flags.
CountNodesToProcess_Negated(table) ==
    Len(table) - Len(ActivePositions(table, 1))

\* CountNodesToProcess(): the number of set process flags.
CountNodesToProcess(table) == Len(ActivePositions(table, 1))

----------------------------------------------------------------------------
\* parameters_t = tuple<bin, abscissa_X_P, abscissa_X_M, jacobian, weights>.
\* The two abscissas and the two weights of rule point `call` are kept as the
\* triple (call, lower, upper) they are computed from.

ParamRec(b, c, lo, hi, j) ==
    [bin |-> b, call |-> c, lower |-> lo, upper |-> hi, jacobian |-> j]

\* A value-initialised parameters_t.
DefaultParam == ParamRec(0, 0, 0, 0, 0)

\* Rule points per node: (NRULE+1)/2 in size_t arithmetic.
CallsFor(nrule) == (nrule + 1) \div 2

CallsPerNode == CallsFor(NRULE)

\* fRule.GetAbscissa(call, lower, upper): the jacobian of the affine map.
GetAbscissa(c, lo, hi) == RealDiv(hi - lo, 2)

\* The index with the roles of node and call exchanged.
Index_NodeMajor(call, nNodes, i) == i * nNodes + call

\* size_t index = call*nNodes + i, 0-based.
Index(call, nNodes, i) == call * nNodes + i

\* The inner loop of SetParametersTable with the index call*nNodes, without i.
WriteCalls_NoColumn(temp, node, i, nNodes, calls) ==
    LET Put[c \in 0..calls] ==
            IF c = 0 THEN temp
            ELSE [Put[c - 1] EXCEPT ![(c - 1) * nNodes + 1] =
                    ParamRec(node.bin, c - 1, node.lower, node.upper,
                             GetAbscissa(c - 1, node.lower, node.upper))]
    IN  Put[calls]

\* The inner loop of SetParametersTable: the records of one node, written at
\* index call*nNodes + i (0-based) of temp_table, for call < calls.
WriteCalls(temp, node, i, nNodes, calls) ==
    LET Put[c \in 0..calls] ==
            IF c = 0 THEN temp
            ELSE [Put[c - 1] EXCEPT ![Index(c - 1, nNodes, i) + 1] =
                    ParamRec(node.bin, c - 1, node.lower, node.upper,
                             GetAbscissa(c - 1, node.lower, node.upper))]
    IN  Put[calls]

\* The outer loop of SetParametersTable over the nodes from position k on:
\* i counts the nodes expanded so far; all tells whether inactive nodes are
\* expanded too.
RECURSIVE WriteNodes(_, _, _, _, _, _, _)
WriteNodes(temp, table, k, i, nNodes, calls, all) ==
    IF k > Len(table) THEN temp
    ELSE IF ~all /\ ~table[k].process
         THEN WriteNodes(temp, table, k + 1, i, nNodes, calls, all)
         ELSE WriteNodes(WriteCalls(temp, table[k], i, nNodes, calls),
                         table, k + 1, i + 1, nNodes, calls, all)

\* temp_table of SetParametersTable for a rule of order nrule: nNodes*(nrule+1)/2
\* value-initialised records, then the records of the active nodes.
TempTable(table, nrule) ==
    LET nNodes == CountNodesToProcess(table)
        size == (nNodes * (nrule + 1)) \div 2
    IN  WriteNodes([j \in 1..size |-> DefaultParam], table, 1, 0, nNodes,
                   CallsFor(nrule), FALSE)

\* The indices of temp_table SetParametersTable assigns to, in the order of
\* the assignments: the active nodes in table order, the calls of each.
WrittenIndices(table, nrule) ==
    LET nNodes == CountNodesToProcess(table)
        calls == CallsFor(nrule)
    IN  [t \in 1..(nNodes * calls) |->
            Index((t - 1) % calls, nNodes, (t - 1) \div calls)]

\* SetParametersTable() without the `continue` for the inactive nodes.
SetParametersTable_NoSkip(table) ==
    LET nNodes == Len(table)
        size == (nNodes * (NRULE + 1)) \div 2
    IN  WriteNodes([j \in 1..size |-> DefaultParam], table, 1, 0, nNodes,
                   CallsPerNode, TRUE)

\* SetParametersTable(): the table built for the rule of the instantiation.
SetParametersTable(table) == TempTable(table, NRULE)

\* fParametersTable left as it was: no clear(), no resize().
CopyToDevice_NoClear(old, temp) ==
    [j \in 1..Max(Len(old), Len(temp)) |->
        IF j <= Len(temp) THEN temp[j] ELSE old[j]]

\* fParametersTable.clear(); fParametersTable.resize(size); and the closing
\* thrust::copy of temp_table over it.
CopyToDevice(old, temp) ==
    LET cleared == SubSeq(old, 1, 0)
        resized == [j \in 1..Len(temp) |->
                       IF j <= Len(cleared) THEN cleared[j] ELSE DefaultParam]
    IN  [j \in 1..Len(resized) |-> IF j <= Len(temp) THEN temp[j] ELSE resized[j]]

----------------------------------------------------------------------------
\* Evaluation and reduction (specification 4.4): the call results are reduced
\* by bin id into one (kronrod, kronrod - gauss) pair per key, and the node
\* owning the key gets integral = kronrod, error = GetError(kronrod - gauss).

Keys(params) == {params[j].bin : j \in DOMAIN params}

\* Every contribution to a key's sums carries the jacobian as a factor: a key
\* whose records all have jacobian 0 reduces to (0, 0).
ZeroJacobian(params, b) ==
    \A j \in DOMAIN params : params[j].bin = b => params[j].jacobian = 0

ReducedSums(params) ==
    {f \in [Keys(params) -> (KronrodValues \X DeltaValues) \cup {<<0, 0>>}] :
        \A b \in Keys(params) : ZeroJacobian(params, b) <=> f[b] = <<0, 0>>}

Reduce(table, params, f) ==
    [k \in DOMAIN table |->
        IF table[k].bin \in Keys(params)
        THEN [table[k] EXCEPT !.integral = f[table[k].bin][1],
                              !.error = GetError(f[table[k].bin][2])]
        ELSE table[k]]

\* Refinement (specification 4.5).  n is the number of active nodes of the
\* iteration; a node's tolerance share is tol / n.
WithinShare(node, n, tol) == node.error * n <= tol

MaxBin(table) ==
    CHOOSE m \in {table[k].bin : k \in DOMAIN table} :
        \A k \in DOMAIN table : table[k].bin <= m

\* The split point taken at the lower end instead of the middle.
Midpoint_LowerEnd(lo, hi) == lo

Midpoint(lo, hi) == RealDiv(lo + hi, 2)

RECURSIVE Refine(_, _, _, _, _)
Refine(table, k, n, tol, nextId) ==
    IF k > Len(table) THEN <<>>
    ELSE LET node == table[k] IN
         IF ~node.process
         THEN <<node>> \o Refine(table, k + 1, n, tol, nextId)
         ELSE IF WithinShare(node, n, tol)
         THEN <<[node EXCEPT !.process = FALSE]>>
              \o Refine(table, k + 1, n, tol, nextId)
         ELSE LET mid == Midpoint(node.lower, node.upper) IN
              <<Node(TRUE, nextId, node.lower, mid, 0, 0),
                Node(TRUE, nextId + 1, mid, node.upper, 0, 0)>>
              \o Refine(table, k + 1, n, tol, nextId + 2)

\* UpdateNodes() retiring every node, whatever its error.
UpdateNodes_RetireAll(table, tol) ==
    [k \in DOMAIN table |-> [table[k] EXCEPT !.process = FALSE]]

\* UpdateNodes(): every evaluated node is retired or replaced by its halves.
UpdateNodes(table, tol) ==
    Refine(table, 1, CountNodesToProcess(table), tol, MaxBin(table) + 1)

\* The integrals of the nodes UpdateNodes retires in this iteration.
RetiredNow(table, tol) ==
    LET n == CountNodesToProcess(table) IN
    SumSeq([k \in DOMAIN table |->
        IF table[k].process /\ WithinShare(table[k], n, tol)
        THEN table[k].integral ELSE 0])

\* Accumulate(): the retired nodes' integrals and errors, summed.
Accumulate(table) ==
    <<SumSeq([k \in DOMAIN table |->
                IF table[k].process THEN 0 ELSE table[k].integral]),
      SumSeq([k \in DOMAIN table |->
                IF table[k].process THEN 0 ELSE table[k].error])>>

\* The loop condition of Integrate: nodes are left to process, and bisecting
\* all of them would not take the table over its ceiling.
BudgetLeft(table) == Len(table) + CountNodesToProcess(table) <= MaxNodes

Continue(table) == CountNodesToProcess(table) > 0 /\ BudgetLeft(table)

\* What a table is, against the table InitNodes writes: grown by bisections,
\* of the same size but holding results, or fresh.
Staleness(table) ==
    IF Len(table) > NBIN THEN "grown"
    ELSE IF \/ Len(table) < NBIN
            \/ \E k \in DOMAIN table :
                  ~table[k].process \/ table[k].integral # 0 \/ table[k].error # 0
         THEN "results"
         ELSE "fresh"

----------------------------------------------------------------------------
\* The values GetIterationNumber() of another integrator can return.
OtherIterations == 0..(MaxNodes - NBIN - 1)

\* No history kept.
NoProbe == [kind |-> "none"]

\* The history of a round trip of the bounds: the bounds and the table of the
\* construction, and whether a setter moved a bound away and a call refined.
RoundTripProbe(xl, xu) ==
    [kind |-> "roundtrip", lower |-> xl, upper |-> xu,
     table |-> InitNodes(<<>>, xl, xu), moved |-> FALSE, refined |-> FALSE]

TrackBounds(xl, xu) ==
    IF probe.kind = "roundtrip"
    THEN [probe EXCEPT !.moved = @ \/ xl # probe.lower \/ xu # probe.upper]
    ELSE probe

TrackRefinement(grown) ==
    IF probe.kind = "roundtrip"
    THEN [probe EXCEPT !.refined = @ \/ grown]
    ELSE probe

\* The object a constructor leaves: op = "construct" for
\* GaussKronrodAdaptiveQuadrature(xlower, xupper, tolerance), "copy" for a
\* copy constructor taking the four values from `other`.
Constructed(it, xl, xu, tol, op) ==
    /\ fIterationNumber = it
    /\ fXLower = xl
    /\ fXUpper = xu
    /\ fMaxRelativeError = tol
    /\ fNodesTable = InitNodes(<<>>, xl, xu)
    /\ fParametersTable = <<>>
    /\ pc = "idle"
    /\ result = <<>>
    /\ lastOp = op
    /\ staleBefore = "fresh"
    /\ retiredSum = 0

Init ==
    \E it \in OtherIterations, xl \in BoundValues, xu \in BoundValues,
       tol \in Tolerances, op \in {"construct", "copy"} :
        /\ op = "construct" => it = 0
        /\ Constructed(it, xl, xu, tol, op)
        /\ probe = NoProbe

\* The constructor alone, with the history of the round trip.
InitRoundTrip ==
    \E xl \in BoundValues, xu \in BoundValues, tol \in Tolerances :
        /\ Constructed(0, xl, xu, tol, "construct")
        /\ probe = RoundTripProbe(xl, xu)

\* operator=(other), other being another object.
Assign(it, xl, xu, tol) ==
    /\ pc = "idle"
    /\ fIterationNumber' = it
    /\ fXLower' = xl
    /\ fXUpper' = xu
    /\ fMaxRelativeError' = tol
    /\ fNodesTable' = InitNodes(fNodesTable, xl, xu)
    /\ lastOp' = "assign"
    /\ staleBefore' = Staleness(fNodesTable)
    /\ retiredSum' = 0
    /\ UNCHANGED <<fParametersTable, pc, result, probe>>

\* SetMaxRelativeError() that runs InitNodes() as the other setters do.
SetMaxRelativeError_Reinit(tol) ==
    /\ pc = "idle"
    /\ fMaxRelativeError' = tol
    /\ fNodesTable' = InitNodes(fNodesTable, fXLower, fXUpper)
    /\ lastOp' = "SetMaxRelativeError"
    /\ UNCHANGED <<fIterationNumber, fXLower, fXUpper, fParametersTable, pc,
                   result, staleBefore, retiredSum, probe>>

SetMaxRelativeError(tol) ==
    /\ pc = "idle"
    /\ fMaxRelativeError' = tol
    /\ lastOp' = "SetMaxRelativeError"
    /\ UNCHANGED <<fIterationNumber, fXLower, fXUpper, fNodesTable,
                   fParametersTable, pc, result, staleBefore, retiredSum,
                   probe>>

SetXLower(x) ==
    /\ pc = "idle"
    /\ fXLower' = x
    /\ fNodesTable' = InitNodes(fNodesTable, x, fXUpper)
    /\ lastOp' = "SetXLower"
    /\ probe' = TrackBounds(x, fXUpper)
    /\ staleBefore' = Staleness(fNodesTable)
    /\ retiredSum' = 0
    /\ UNCHANGED <<fIterationNumber, fXUpper, fMaxRelativeError,
                   fParametersTable, pc, result>>

SetXUpper(x) ==
    /\ pc = "idle"
    /\ fXUpper' = x
    /\ fNodesTable' = InitNodes(fNodesTable, fXLower, x)
    /\ lastOp' = "SetXUpper"
    /\ probe' = TrackBounds(fXLower, x)
    /\ staleBefore' = Staleness(fNodesTable)
    /\ retiredSum' = 0
    /\ UNCHANGED <<fIterationNumber, fXLower, fMaxRelativeError,
                   fParametersTable, pc, result>>

\* Integrate(functor), entered.
IntegrateBegin ==
    /\ pc = "idle"
    /\ pc' = "test"
    /\ fIterationNumber' = 0
    /\ lastOp' = "Integrate"
    /\ UNCHANGED <<fXLower, fXUpper, fMaxRelativeError, fNodesTable,
                   fParametersTable, result, staleBefore, retiredSum, probe>>

\* The loop condition.
LoopTest ==
    /\ pc = "test"
    /\ pc' = IF Continue(fNodesTable) THEN "expand" ELSE "accumulate"
    /\ UNCHANGED <<fIterationNumber, fXLower, fXUpper, fMaxRelativeError,
                   fNodesTable, fParametersTable, result, lastOp,
                   staleBefore, retiredSum, probe>>

\* Parameter expansion.
Expand ==
    /\ pc = "expand"
    /\ fParametersTable' =
          CopyToDevice(fParametersTable, SetParametersTable(fNodesTable))
    /\ pc' = "eval"
    /\ UNCHANGED <<fIterationNumber, fXLower, fXUpper, fMaxRelativeError,
                   fNodesTable, result, lastOp, staleBefore, retiredSum,
                   probe>>

\* Evaluation of the functor on every record, and the reduction by key.
Evaluate ==
    /\ pc = "eval"
    /\ \E f \in ReducedSums(fParametersTable) :
          fNodesTable' = Reduce(fNodesTable, fParametersTable, f)
    /\ pc' = "update"
    /\ UNCHANGED <<fIterationNumber, fXLower, fXUpper, fMaxRelativeError,
                   fParametersTable, result, lastOp, staleBefore, retiredSum,
                   probe>>

\* The refinement step, closing one iteration.
Update ==
    /\ pc = "update"
    /\ fNodesTable' = UpdateNodes(fNodesTable, fMaxRelativeError)
    /\ retiredSum' = retiredSum + RetiredNow(fNodesTable, fMaxRelativeError)
    /\ fIterationNumber' = fIterationNumber + 1
    /\ pc' = "test"
    /\ probe' = TrackRefinement(Len(fNodesTable') > Len(fNodesTable))
    /\ UNCHANGED <<fXLower, fXUpper, fMaxRelativeError, fParametersTable,
                   result, lastOp, staleBefore>>

\* return Accumulate();
Return ==
    /\ pc = "accumulate"
    /\ result' = Accumulate(fNodesTable)
    /\ pc' = "idle"
    /\ UNCHANGED <<fIterationNumber, fXLower, fXUpper, fMaxRelativeError,
                   fNodesTable, fParametersTable, lastOp, staleBefore,
                   retiredSum, probe>>

IntegrateStep == LoopTest \/ Expand \/ Evaluate \/ Update \/ Return

Next ==
    \/ \E it \in OtherIterations, xl \in BoundValues, xu \in BoundValues,
          tol \in Tolerances : Assign(it, xl, xu, tol)
    \/ \E tol \in Tolerances : SetMaxRelativeError(tol)
    \/ \E x \in BoundValues : SetXLower(x)
    \/ \E x \in BoundValues : SetXUpper(x)
    \/ IntegrateBegin
    \/ LoopTest
    \/ Expand
    \/ Evaluate
    \/ Update
    \/ Return

Spec == Init /\ [][Next]_vars

\* Integrate is sequential code: once entered, each of its steps is taken.
LiveSpec == Spec /\ WF_vars(IntegrateStep)

\* The constructor, then setters and calls of Integrate, with the history of
\* the bounds kept.
NextRoundTrip ==
    \/ \E tol \in Tolerances : SetMaxRelativeError(tol)
    \/ \E x \in BoundValues : SetXLower(x)
    \/ \E x \in BoundValues : SetXUpper(x)
    \/ IntegrateBegin
    \/ LoopTest
    \/ Expand
    \/ Evaluate
    \/ Update
    \/ Return

SpecRoundTrip == InitRoundTrip /\ [][NextRoundTrip]_vars

----------------------------------------------------------------------------
\* Every division performed on a bound is exact on the grid.
ExactArithmetic ==
    /\ IsExact(fXUpper - fXLower, NBIN)
    /\ \A k \in DOMAIN fNodesTable :
          (fNodesTable[k].process /\ Continue(fNodesTable))
              => IsExact(fNodesTable[k].upper - fNodesTable[k].lower, 2)

----------------------------------------------------------------------------
\* Vocabulary of the properties

ActiveSet(table) == {k \in DOMAIN table : table[k].process}

RetiredSet(table) == {k \in DOMAIN table : ~table[k].process}

\* InitNodes has just run: a constructor, an assignment or a bound setter was
\* the last operation.
AfterInit ==
    /\ pc = "idle"
    /\ lastOp \in {"construct", "copy", "assign", "SetXLower", "SetXUpper"}

AfterSetter == pc = "idle" /\ lastOp \in {"SetXLower", "SetXUpper"}

\* Integrate has returned and nothing ran since.
Returned == pc = "idle" /\ lastOp = "Integrate"

\* Node k of the table spans [xLower + (k-1)*delta, xLower + k*delta] with
\* delta = (xUpper - xLower)/NBIN, stated without the division.
SpansBin(node, k) ==
    /\ NBIN * (node.lower - fXLower) = (k - 1) * (fXUpper - fXLower)
    /\ NBIN * (node.upper - fXLower) = k * (fXUpper - fXLower)

Contiguous(table) ==
    \A k \in 1..(Len(table) - 1) : table[k].upper = table[k + 1].lower

C2_InitPartition ==
    AfterInit =>
        /\ Len(fNodesTable) = NBIN
        /\ \A k \in 1..NBIN : SpansBin(fNodesTable[k], k)
        /\ \A j \in 1..NBIN, k \in 1..NBIN :
              fNodesTable[j].upper - fNodesTable[j].lower
                  = fNodesTable[k].upper - fNodesTable[k].lower
        /\ Contiguous(fNodesTable)
        /\ fNodesTable[1].lower = fXLower
        /\ fNodesTable[NBIN].upper = fXUpper

\* InitNodes run by SetXUpper on a proper domain that starts away from 0.
C2_Witness ==
    /\ pc = "idle" /\ lastOp = "SetXUpper"
    /\ 0 < fXLower /\ fXLower < fXUpper

\* C3: right after InitNodes every node is active with integral = error = 0,
\* whatever the table held before.
C3_InitFresh ==
    AfterInit =>
        \A k \in DOMAIN fNodesTable :
            /\ fNodesTable[k].process
            /\ fNodesTable[k].integral = 0
            /\ fNodesTable[k].error = 0

\* InitNodes has overwritten a table that held results.
C3_Witness == AfterInit /\ staleBefore = "results" /\ lastOp = "SetXUpper"

\* C4: no two active nodes carry the same bin id.
C4_UniqueActiveBins ==
    \A j \in ActiveSet(fNodesTable), k \in ActiveSet(fNodesTable) :
        j # k => fNodesTable[j].bin # fNodesTable[k].bin

\* Two bisections in one iteration: four fresh children are active at once.
C4_Witness ==
    /\ Cardinality(ActiveSet(fNodesTable)) >= 4
    /\ fIterationNumber >= 1

\* C5: every node satisfies lower < upper.
C5_LowerBelowUpper ==
    \A k \in DOMAIN fNodesTable : fNodesTable[k].lower < fNodesTable[k].upper

\* C6: the node table never holds more than NBIN nodes.
C6_AtMostNBIN == Len(fNodesTable) <= NBIN

\* Integrate was called and has not returned.
Running == pc # "idle"

\* The refinement loop has stopped with nothing left to process or with the
\* subdivision budget used up.
Stopped ==
    /\ Returned
    /\ \/ ActiveSet(fNodesTable) = {}
       \/ Len(fNodesTable) + Cardinality(ActiveSet(fNodesTable)) > MaxNodes

\* C7: every call of Integrate terminates: a running call leads to a state
\* where the call has returned with the active set empty or the budget
\* exhausted.
C7_Terminates == Running ~> Stopped

\* A call that ran two iterations and stopped on the budget.
C7_Witness ==
    /\ Returned
    /\ fIterationNumber >= 2
    /\ ActiveSet(fNodesTable) # {}

\* Integrate returned while nodes were still waiting to be processed.
NotConverged == Returned /\ ActiveSet(fNodesTable) # {}

\* C8: when the loop stops on the budget Integrate returns, with (value,
\* error), an indication of non-convergence: a further component of the
\* returned value or, failing that, a returned error above the tolerance.
C8_NonConvergenceIndicated ==
    NotConverged => (Len(result) > 2 \/ result[2] > fMaxRelativeError)

\* C9: the value Integrate returns is the sum of the integrals of the retired
\* nodes, each taken once as it was when the node was retired.
C9_ValueIsRetiredSum == Returned => result[1] = retiredSum

\* A return after a bisection, with a retired node of non-zero integral and
\* nodes still active.
C9_Witness ==
    /\ Returned
    /\ Len(fNodesTable) > NBIN
    /\ result[1] # 0
    /\ ActiveSet(fNodesTable) # {}
    /\ RetiredSet(fNodesTable) # {}

\* C10: after SetXLower or SetXUpper the table is the fresh NBIN-node
\* partition of the new bounds: NBIN nodes, node i in bin i with its
\* equal-width interval, all active, integral = error = 0.
C10_SettersReinit ==
    AfterSetter =>
        /\ Len(fNodesTable) = NBIN
        /\ \A k \in 1..NBIN :
              /\ SpansBin(fNodesTable[k], k)
              /\ fNodesTable[k] =
                    Node(TRUE, k - 1, fNodesTable[k].lower,
                         fNodesTable[k].upper, 0, 0)

\* SetXLower called on a table that a refining Integrate had grown.
C10_Witness ==
    /\ pc = "idle" /\ lastOp = "SetXLower"
    /\ staleBefore = "grown"
    /\ result # <<>>
    /\ fXLower < fXUpper

----------------------------------------------------------------------------
\* SetParametersTable() on its own, over the rule orders and node tables it can
\* be instantiated and called with.
MaxRule == 4
MaxProbeNodes == 3

\* The table InitNodes leaves for n bins of width Scale.
ProbeNodes(n) ==
    [k \in 1..n |-> Node(TRUE, k - 1, k * Scale, (k + 1) * Scale, 0, 0)]

\* The rule order of the instantiation and the parameter table as it was
\* before the last call of SetParametersTable.
ParamsProbe(nrule, previous) ==
    [kind |-> "params", nrule |-> nrule, previous |-> previous]

InitParams ==
    \E nrule \in 1..MaxRule, n \in 1..MaxProbeNodes :
        /\ fIterationNumber = 0
        /\ fXLower = Scale
        /\ fXUpper = (n + 1) * Scale
        /\ fMaxRelativeError \in Tolerances
        /\ fNodesTable = ProbeNodes(n)
        /\ fParametersTable = <<>>
        /\ pc = "idle"
        /\ result = <<>>
        /\ lastOp = "construct"
        /\ staleBefore = "fresh"
        /\ retiredSum = 0
        /\ probe = ParamsProbe(nrule, <<>>)

\* SetParametersTable() for the rule order of the instantiation.
ExpandWith ==
    /\ probe.kind = "params"
    /\ fParametersTable' =
          CopyToDevice(fParametersTable, TempTable(fNodesTable, probe.nrule))
    /\ probe' = ParamsProbe(probe.nrule, fParametersTable)
    /\ lastOp' = "SetParametersTable"
    /\ UNCHANGED <<fIterationNumber, fXLower, fXUpper, fMaxRelativeError,
                   fNodesTable, pc, result, staleBefore, retiredSum>>

\* A node leaves the active set between two calls of SetParametersTable.
RetireNode(k) ==
    /\ probe.kind = "params"
    /\ fNodesTable[k].process
    /\ fNodesTable' = [fNodesTable EXCEPT ![k].process = FALSE]
    /\ lastOp' = "UpdateNodes"
    /\ UNCHANGED <<fIterationNumber, fXLower, fXUpper, fMaxRelativeError,
                   fParametersTable, pc, result, staleBefore, retiredSum,
                   probe>>

NextParams ==
    \/ ExpandWith
    \/ \E k \in DOMAIN fNodesTable : RetireNode(k)

SpecParams == InitParams /\ [][NextParams]_vars

\* SetParametersTable has just run for a rule of order probe.nrule.
Expanded == probe.kind = "params" /\ lastOp = "SetParametersTable"

----------------------------------------------------------------------------
\* C11: InitNodes is a function of the bounds and NBIN alone: whenever a
\* setter has just put the bounds back at the values of the construction,
\* whatever setters and calls of Integrate came before, the node table is the
\* one the constructor built: same length, bin ids, bounds, flags, and zeroed
\* results.
BoundsRestored ==
    /\ probe.kind = "roundtrip"
    /\ AfterSetter
    /\ fXLower = probe.lower
    /\ fXUpper = probe.upper

C11_RoundTrip == BoundsRestored => fNodesTable = probe.table

\* The bounds are back after a setter moved one away and a call of Integrate
\* bisected a node in between.
C11_Witness == BoundsRestored /\ probe.moved /\ probe.refined

----------------------------------------------------------------------------
\* C12: degenerate (xLower = xUpper) or inverted (xLower > xUpper) bounds given
\* to a constructor or left by a setter are rejected or normalised: the table
\* made from them has no node of zero or negative width.
BadBounds == fXLower >= fXUpper

C12_BoundsValidated ==
    (AfterInit /\ BadBounds) =>
        \A k \in DOMAIN fNodesTable :
            fNodesTable[k].lower < fNodesTable[k].upper

----------------------------------------------------------------------------
\* The refinement step of an iteration, as a step of the state machine.
UpdateStep == pc = "update" /\ pc' = "test"

\* The positions of the nodes with bin id b.
WithBin(table, b) == {k \in DOMAIN table : table[k].bin = b}

\* The share of the tolerance an evaluated node is tested against is
\* tol / (number of evaluated nodes); stated without the division.
OverShare(table, k, tol) ==
    table[k].error * Cardinality(ActiveSet(table)) > tol

\* C14: the refinement rule is applied once per iteration to every evaluated
\* node, exhaustively and exclusively: a node with error <= its share of the
\* tolerance is retired as it is, and only such a node is; every other is
\* bisected (its id leaves the table, which grows by one node for it); no
\* evaluated node is left active and undivided.
RuleApplied ==
    /\ fIterationNumber' = fIterationNumber + 1
    /\ \A k \in ActiveSet(fNodesTable) :
          LET b == fNodesTable[k].bin
              after == WithBin(fNodesTable', b)
          IN  /\ \A j \in after : ~fNodesTable'[j].process
              /\ IF OverShare(fNodesTable, k, fMaxRelativeError)
                 THEN after = {}
                 ELSE \E j \in after :
                        fNodesTable'[j] =
                            [fNodesTable[k] EXCEPT !.process = FALSE]
    /\ Len(fNodesTable') = Len(fNodesTable) +
          Cardinality({k \in ActiveSet(fNodesTable) :
                          OverShare(fNodesTable, k, fMaxRelativeError)})

C14_RefinementRule == [][UpdateStep => RuleApplied]_vars

\* An iteration has just retired one evaluated node and bisected the other.
C14_Witness ==
    /\ pc = "test"
    /\ fIterationNumber = 1
    /\ Len(fNodesTable) = NBIN + 1
    /\ Cardinality(RetiredSet(fNodesTable)) = 1

----------------------------------------------------------------------------
\* A step inside a call of Integrate.
InCall == pc # "idle"

\* C15: a node moves only from active to evaluated to retired or bisected,
\* and retirement is permanent: in every step of a call a retired node stays
\* in the table as it is (inactive, integral and error unchanged), no node
\* that is active afterwards carries the id of a node that was inactive, and
\* the expansion writes no parameter record for a retired node.
RetirementKept ==
    /\ \A k \in RetiredSet(fNodesTable) :
          \E j \in DOMAIN fNodesTable' : fNodesTable'[j] = fNodesTable[k]
    /\ \A j \in ActiveSet(fNodesTable') :
          WithBin(fNodesTable, fNodesTable'[j].bin) \subseteq
              ActiveSet(fNodesTable)
    /\ pc' = "eval" =>
          \A k \in RetiredSet(fNodesTable') :
              fNodesTable'[k].bin \notin Keys(fParametersTable')

C15_RetiredForGood == [][InCall => RetirementKept]_vars

\* The expansion has run over a table that holds a retired node and an
\* active one.
C15_Witness ==
    /\ pc = "eval"
    /\ RetiredSet(fNodesTable) # {}
    /\ ActiveSet(fNodesTable) # {}

----------------------------------------------------------------------------
\* The bin ids in a table.
Bins(table) == {table[k].bin : k \in DOMAIN table}

\* Positions j, j + 1 of the table hold the two halves of parent: active,
\* results zeroed, meeting at the midpoint, under ids the table before did not
\* hold and no other node of the table holds.
HalvesAt(table, j, parent, before) ==
    LET left == table[j]
        right == table[j + 1]
    IN  /\ left.process /\ right.process
        /\ left.lower = parent.lower
        /\ left.upper = right.lower
        /\ right.upper = parent.upper
        /\ 2 * left.upper = parent.lower + parent.upper
        /\ left.integral = 0 /\ left.error = 0
        /\ right.integral = 0 /\ right.error = 0
        /\ left.bin # right.bin
        /\ {left.bin, right.bin} \cap Bins(before) = {}
        /\ WithBin(table, left.bin) = {j}
        /\ WithBin(table, right.bin) = {j + 1}

\* C16: bisecting a node [lower, upper] replaces it by exactly two active
\* children [lower, mid] and [mid, upper], mid = (lower + upper)/2, with ids
\* distinct from each other and from every other node; the parent leaves the
\* table, so its integral and error are in no later sum, and the active nodes
\* after the step are the children alone, two for each bisected node.
Bisections ==
    LET bisected == {k \in ActiveSet(fNodesTable) :
                        OverShare(fNodesTable, k, fMaxRelativeError)}
    IN  /\ \A k \in bisected :
              /\ WithBin(fNodesTable', fNodesTable[k].bin) = {}
              /\ \E j \in 1..(Len(fNodesTable') - 1) :
                    HalvesAt(fNodesTable', j, fNodesTable[k], fNodesTable)
        /\ Cardinality(ActiveSet(fNodesTable')) = 2 * Cardinality(bisected)
        /\ Accumulate(fNodesTable')[1] =
              SumSeq([k \in DOMAIN fNodesTable |->
                        IF k \in bisected THEN 0 ELSE fNodesTable[k].integral])

C16_Bisection == [][UpdateStep => Bisections]_vars

\* An iteration has just bisected both nodes of the initial table.
C16_Witness ==
    /\ pc = "test"
    /\ fIterationNumber = 1
    /\ Len(fNodesTable) = 2 * NBIN
    /\ ActiveSet(fNodesTable) = DOMAIN fNodesTable

----------------------------------------------------------------------------
\* ceil(x/2) for a natural x.
CeilHalf(x) == (x + 1) \div 2

\* C17: for every number n of active nodes and every rule order, odd or even,
\* the table SetParametersTable produces has exactly n * ceil((NRULE+1)/2)
\* records.
C17_TableSize ==
    Expanded =>
        Len(fParametersTable) =
            Cardinality(ActiveSet(fNodesTable)) * CeilHalf(probe.nrule + 1)

----------------------------------------------------------------------------
\* The records of a parameter table tagged with bin id b.
Group(params, b) == {j \in DOMAIN params : params[j].bin = b}

\* The records tagged with the id of node are calls of them, one for each rule
\* point 0..calls-1, each with the node's bounds and half-width jacobian.
GroupOf(params, node, calls) ==
    LET g == Group(params, node.bin)
    IN  /\ Cardinality(g) = calls
        /\ {params[j].call : j \in g} = 0..(calls - 1)
        /\ \A j \in g :
              /\ params[j].lower = node.lower
              /\ params[j].upper = node.upper
              /\ 2 * params[j].jacobian = node.upper - node.lower

OddRule == probe.nrule % 2 = 1

----------------------------------------------------------------------------
\* GetError() on its own: the evaluation of the two nodes of a fresh table,
\* over differences kronrod - gauss of both signs and of growing size, each
\* making 200*|delta| a perfect square.
ErrorProbes == {0, 2, -2, 8, -8, 18, -18, 32, -32}

ErrorProbe(d, e) == [kind |-> "error", first |-> d, second |-> e]

InitError ==
    \E d \in ErrorProbes, e \in ErrorProbes :
        /\ fIterationNumber = 0
        /\ fXLower = Scale
        /\ fXUpper = 2 * Scale
        /\ fMaxRelativeError \in Tolerances
        /\ fNodesTable = InitNodes(<<>>, Scale, 2 * Scale)
        /\ fParametersTable =
              CopyToDevice(<<>>, SetParametersTable(InitNodes(<<>>, Scale, 2 * Scale)))
        /\ pc = "eval"
        /\ result = <<>>
        /\ lastOp = "Integrate"
        /\ staleBefore = "fresh"
        /\ retiredSum = 0
        /\ probe = ErrorProbe(d, e)

\* The evaluation with the differences of the probe for the two nodes.
EvaluateProbe ==
    /\ probe.kind = "error"
    /\ pc = "eval"
    /\ fNodesTable' =
          Reduce(fNodesTable, fParametersTable,
                 [b \in Keys(fParametersTable) |->
                     IF b = 0 THEN <<1, probe.first>> ELSE <<1, probe.second>>])
    /\ pc' = "update"
    /\ UNCHANGED <<fIterationNumber, fXLower, fXUpper, fMaxRelativeError,
                   fParametersTable, result, lastOp, staleBefore, retiredSum,
                   probe>>

NextError == EvaluateProbe

SpecError == InitError /\ [][NextError]_vars

Magnitude(d) == IF d < 0 THEN 0 - d ELSE d

\* e is max(epsilon, (200*|d|)^1.5), stated without the power: for
\* x = 200*|d| > 0, e = x^1.5 is e = x*r with r*r = x, which on this grid is
\* above epsilon.
IsErrorOf(e, d) ==
    LET x == 200 * Magnitude(d)
    IN  IF x = 0 THEN e = Epsilon
        ELSE LET r == e \div x
             IN  r * x = e /\ r * r = x /\ e >= Epsilon

\* The two nodes have been evaluated with the differences of the probe.
Probed == probe.kind = "error" /\ pc = "update"

\* C20: GetError(delta) = max(epsilon, (200*|delta|)^1.5) for every delta,
\* positive, negative or zero: it is the same for delta and -delta, does not
\* decrease as |delta| grows, and is never below epsilon, so that every
\* evaluated node has a strictly positive error.
C20_ErrorEstimate ==
    Probed =>
        LET first == fNodesTable[1].error
            second == fNodesTable[2].error
        IN  /\ IsErrorOf(first, probe.first)
            /\ IsErrorOf(second, probe.second)
            /\ Magnitude(probe.first) = Magnitude(probe.second)
                  => first = second
            /\ Magnitude(probe.first) <= Magnitude(probe.second)
                  => first <= second
            /\ first >= Epsilon /\ second >= Epsilon
            /\ first > 0 /\ second > 0

\* Two nodes have been evaluated with differences of opposite signs, and so
\* have errors above the floor.
C20_Witness ==
    /\ Probed
    /\ probe.first < 0
    /\ probe.second = 0 - probe.first
    /\ fNodesTable[1].error > Epsilon

----------------------------------------------------------------------------
\* The evaluation step on a parallel backend: one task for each parameter
\* record, the reduction by key behind the join of the tasks, and a functor
\* that may raise a fault.
BackendProbe(pending, reduced, faulted) ==
    [kind |-> "backend", pending |-> pending, reduced |-> reduced,
     faulted |-> faulted]

InitBackend ==
    \E xl \in BoundValues, xu \in BoundValues, tol \in Tolerances :
        /\ Constructed(0, xl, xu, tol, "construct")
        /\ probe = BackendProbe({}, {}, FALSE)

\* The join of the parallel algorithm, taken with tasks still running.
BarrierPassed_None(pending) == TRUE

\* The parallel algorithm returns to the driver when no task is left.
BarrierPassed(pending) == pending = {}

\* The node state a failed call leaves, kept as the call had refined it.
Discard_Keep(table, xl, xu) == table

\* The node state a failed call leaves: the partition of the bounds, anew.
Discard(table, xl, xu) == InitNodes(table, xl, xu)

\* The tasks of the iteration are handed to the backend.
Launch ==
    /\ probe.kind = "backend"
    /\ pc = "eval"
    /\ pc' = "running"
    /\ probe' = BackendProbe(DOMAIN fParametersTable, {}, FALSE)
    /\ UNCHANGED <<fIterationNumber, fXLower, fXUpper, fMaxRelativeError,
                   fNodesTable, fParametersTable, result, lastOp, staleBefore,
                   retiredSum>>

\* The task of record j evaluates the functor and ends.
TaskRun(j) ==
    /\ probe.kind = "backend"
    /\ pc = "running"
    /\ j \in probe.pending
    /\ probe' = [probe EXCEPT !.pending = @ \ {j}]
    /\ UNCHANGED <<fIterationNumber, fXLower, fXUpper, fMaxRelativeError,
                   fNodesTable, fParametersTable, pc, result, lastOp,
                   staleBefore, retiredSum>>

\* The functor raises a fault in the task of record j.
TaskFault(j) ==
    /\ probe.kind = "backend"
    /\ pc = "running"
    /\ j \in probe.pending
    /\ probe' = [probe EXCEPT !.pending = @ \ {j}, !.faulted = TRUE]
    /\ UNCHANGED <<fIterationNumber, fXLower, fXUpper, fMaxRelativeError,
                   fNodesTable, fParametersTable, pc, result, lastOp,
                   staleBefore, retiredSum>>

\* The tasks have ended without a fault: the sums by key are written to the
\* nodes and the driver goes on to the refinement.
Join ==
    /\ probe.kind = "backend"
    /\ pc = "running"
    /\ BarrierPassed(probe.pending)
    /\ ~probe.faulted
    /\ \E f \in ReducedSums(fParametersTable) :
          fNodesTable' = Reduce(fNodesTable, fParametersTable, f)
    /\ probe' = [probe EXCEPT
                    !.reduced = DOMAIN fParametersTable \ probe.pending]
    /\ pc' = "update"
    /\ UNCHANGED <<fIterationNumber, fXLower, fXUpper, fMaxRelativeError,
                   fParametersTable, result, lastOp, staleBefore, retiredSum>>

\* The tasks have ended and one of them faulted: the fault leaves Integrate,
\* nothing is returned, the node state of the call is discarded.
Fail ==
    /\ probe.kind = "backend"
    /\ pc = "running"
    /\ BarrierPassed(probe.pending)
    /\ probe.faulted
    /\ fNodesTable' = Discard(fNodesTable, fXLower, fXUpper)
    /\ result' = <<>>
    /\ retiredSum' = 0
    /\ lastOp' = "fault"
    /\ pc' = "idle"
    /\ UNCHANGED <<fIterationNumber, fXLower, fXUpper, fMaxRelativeError,
                   fParametersTable, staleBefore, probe>>

NextBackend ==
    \/ IntegrateBegin
    \/ LoopTest
    \/ Expand
    \/ Launch
    \/ \E j \in DOMAIN fParametersTable : TaskRun(j)
    \/ \E j \in DOMAIN fParametersTable : TaskFault(j)
    \/ Join
    \/ Fail
    \/ Update
    \/ Return

SpecBackend == InitBackend /\ [][NextBackend]_vars

\* C21: within an iteration the evaluation and the reduction of every record
\* are complete before a node is retired or bisected: while a task of the
\* iteration is running the node table is not modified, and the refinement
\* step reads nodes whose sums include every record of their groups.
BarrierKept ==
    /\ (pc = "running" /\ probe.pending # {}) => fNodesTable' = fNodesTable
    /\ UpdateStep =>
          /\ probe.pending = {}
          /\ \A k \in ActiveSet(fNodesTable) :
                /\ Group(fParametersTable, fNodesTable[k].bin) # {}
                /\ Group(fParametersTable, fNodesTable[k].bin)
                      \subseteq probe.reduced

C21_Barrier == [][probe.kind = "backend" => BarrierKept]_vars

\* The refinement has run on sums joined from tasks that were running side
\* by side.
C21_Witness ==
    /\ probe.kind = "backend"
    /\ pc = "test"
    /\ fIterationNumber = 1
    /\ Cardinality(probe.reduced) = NBIN * CallsPerNode
    /\ Len(fNodesTable) > NBIN

\* A call of Integrate has ended by a fault of the functor.
Failed == probe.kind = "backend" /\ lastOp = "fault"

\* C22: a fault of the functor in the evaluation leaves Integrate at once,
\* without a retry: the call is over, no (value, error) is returned, and the
\* node state the call had built is discarded, the table being the fresh
\* partition of the bounds.
C22_FaultFailsCall ==
    Failed =>
        /\ pc = "idle"
        /\ result = <<>>
        /\ probe.pending = {}
        /\ Len(fNodesTable) = NBIN
        /\ \A k \in DOMAIN fNodesTable :
              /\ fNodesTable[k].process
              /\ fNodesTable[k].integral = 0
              /\ fNodesTable[k].error = 0
              /\ SpansBin(fNodesTable[k], k)

\* The fault came in a later iteration of the call, on a refined table.
C22_Witness == Failed /\ fIterationNumber >= 1

----------------------------------------------------------------------------
\* The position in the table of its i-th active node, i counted from 0.
NthActive(table, i) ==
    CHOOSE k \in ActiveSet(table) :
        Cardinality({q \in ActiveSet(table) : q < k}) = i

----------------------------------------------------------------------------
\* Copies: the object of the state variables is the source; probe keeps the
\* source as it was at the copy and the object the copy made or changed.
Object(it, xl, xu, tol, table) ==
    [it |-> it, lower |-> xl, upper |-> xu, tol |-> tol, table |-> table]

Self ==
    Object(fIterationNumber, fXLower, fXUpper, fMaxRelativeError, fNodesTable)

CopyProbe(op, source, dest) ==
    [kind |-> "copy", op |-> op, source |-> source, dest |-> dest]

\* The copy constructors: the four values of other, then InitNodes().
CopyConstruct(other) ==
    Object(other.it, other.lower, other.upper, other.tol,
           InitNodes(<<>>, other.lower, other.upper))

\* operator= without the test this == &other.
AssignFrom_NoSelfTest(self, other, same) ==
    Object(other.it, other.lower, other.upper, other.tol,
           InitNodes(self.table, other.lower, other.upper))

\* operator=: nothing if this == &other, else the four values of other, then
\* InitNodes().
AssignFrom(self, other, same) ==
    IF same THEN self
    ELSE Object(other.it, other.lower, other.upper, other.tol,
                InitNodes(self.table, other.lower, other.upper))

InitCopy ==
    \E xl \in BoundValues, xu \in BoundValues, tol \in Tolerances :
        /\ Constructed(0, xl, xu, tol, "construct")
        /\ probe = CopyProbe("none", Object(0, xl, xu, tol, <<>>),
                             Object(0, xl, xu, tol, <<>>))

\* A new object is copy-constructed from the source.
CopyFrom ==
    /\ probe.kind = "copy"
    /\ pc = "idle"
    /\ probe' = CopyProbe("copy", Self, CopyConstruct(Self))
    /\ UNCHANGED <<fIterationNumber, fXLower, fXUpper, fMaxRelativeError,
                   fNodesTable, fParametersTable, pc, result, lastOp,
                   staleBefore, retiredSum>>

\* The source is assigned to another object, which was built over the bounds
\* xl, xu and holds a fresh table or one with the history of the source.
AssignTo(xl, xu, table) ==
    /\ probe.kind = "copy"
    /\ pc = "idle"
    /\ probe' = CopyProbe("assign", Self,
                          AssignFrom(Object(0, xl, xu, fMaxRelativeError, table),
                                     Self, FALSE))
    /\ UNCHANGED <<fIterationNumber, fXLower, fXUpper, fMaxRelativeError,
                   fNodesTable, fParametersTable, pc, result, lastOp,
                   staleBefore, retiredSum>>

\* The source is assigned to itself.
SelfAssign ==
    /\ probe.kind = "copy"
    /\ pc = "idle"
    /\ LET after == AssignFrom(Self, Self, TRUE)
       IN  /\ fIterationNumber' = after.it
           /\ fXLower' = after.lower
           /\ fXUpper' = after.upper
           /\ fMaxRelativeError' = after.tol
           /\ fNodesTable' = after.table
           /\ probe' = CopyProbe("self", Self, after)
    /\ UNCHANGED <<fParametersTable, pc, result, lastOp, staleBefore,
                   retiredSum>>

NextCopy ==
    \/ IntegrateBegin
    \/ LoopTest
    \/ Expand
    \/ Evaluate
    \/ Update
    \/ Return
    \/ CopyFrom
    \/ \E xl \in BoundValues, xu \in BoundValues :
          \E table \in {InitNodes(<<>>, xl, xu), fNodesTable} :
              AssignTo(xl, xu, table)
    \/ SelfAssign

SpecCopy == InitCopy /\ [][NextCopy]_vars

\* The table is the partition InitNodes makes of the bounds of the object.
FreshPartition(object) ==
    /\ Len(object.table) = NBIN
    /\ \A k \in DOMAIN object.table :
          LET node == object.table[k]
          IN  /\ node.process
              /\ node.bin = k - 1
              /\ node.integral = 0
              /\ node.error = 0
              /\ NBIN * (node.lower - object.lower) =
                    (k - 1) * (object.upper - object.lower)
              /\ NBIN * (node.upper - object.lower) =
                    k * (object.upper - object.lower)

\* C24: copy construction and assignment from a source in any state, also
\* after a refining call of Integrate, copy the bounds, the tolerance and the
\* iteration number of the source, while the node table of the destination
\* is the fresh partition of the source's bounds in NBIN nodes, without the
\* refined nodes and results of the source; self-assignment leaves the
\* object as it was.
C24_CopyIsFresh ==
    probe.kind = "copy" =>
        /\ probe.op \in {"copy", "assign"} =>
              /\ probe.dest.it = probe.source.it
              /\ probe.dest.lower = probe.source.lower
              /\ probe.dest.upper = probe.source.upper
              /\ probe.dest.tol = probe.source.tol
              /\ FreshPartition(probe.dest)
        /\ probe.op = "self" => probe.dest = probe.source

\* The source of an assignment had run iterations, and its table held more
\* than NBIN nodes and a result.
C24_Witness ==
    /\ probe.kind = "copy"
    /\ probe.op = "assign"
    /\ probe.source.it >= 1
    /\ Len(probe.source.table) > NBIN
    /\ \E k \in DOMAIN probe.source.table :
          probe.source.table[k].integral # 0

----------------------------------------------------------------------------
\* The steps of the three mutators.
MutatorStep(op) == pc = "idle" /\ pc' = "idle" /\ lastOp' = op

\* C25: the frames of the mutators. SetMaxRelativeError changes the tolerance
\* alone: bounds, node table and iteration number stay. SetXLower changes
\* xLower and the node table, SetXUpper xUpper and the node table; neither
\* changes the tolerance, the other bound or the iteration number.
MutatorFrames ==
    /\ MutatorStep("SetMaxRelativeError") =>
          UNCHANGED <<fXLower, fXUpper, fNodesTable, fIterationNumber,
                      fParametersTable>>
    /\ MutatorStep("SetXLower") =>
          UNCHANGED <<fXUpper, fMaxRelativeError, fIterationNumber,
                      fParametersTable>>
    /\ MutatorStep("SetXUpper") =>
          UNCHANGED <<fXLower, fMaxRelativeError, fIterationNumber,
                      fParametersTable>>

C25_MutatorFrames == [][MutatorFrames]_vars

\* The tolerance has been set on an object whose table a call had refined and
\* whose iteration number is not zero.
C25_Witness ==
    /\ pc = "idle"
    /\ lastOp = "SetMaxRelativeError"
    /\ fIterationNumber >= 1
    /\ Len(fNodesTable) > NBIN

----------------------------------------------------------------------------
\* The functors of the VEGAS integrator and the base of the user functors are
\* objects of their own: while they run, an integrator stands by, untouched.
Bystander ==
    Constructed(0, Scale, 2 * Scale, CHOOSE t \in Tolerances : TRUE,
                "construct")

BystanderKept ==
    UNCHANGED <<fIterationNumber, fXLower, fXUpper, fMaxRelativeError,
                fNodesTable, fParametersTable, pc, result, lastOp,
                staleBefore, retiredSum>>

\* ProcessCallsVegas::GetBoxCoordinate(idx, dim, nboxes, j), by the steps of
\* its do-while loop.
MaxDim == 3
MaxBoxes == 3

RECURSIVE Power(_, _)
Power(n, e) == IF e = 0 THEN 1 ELSE n * Power(n, e - 1)

\* The locals at the head of the loop; _coordinate is not initialised and is
\* assigned before it is read.
BoxEntry(idx, dim, nboxes, j) ==
    [kind |-> "box", idx |-> idx, dim |-> dim, nboxes |-> nboxes, j |-> j,
     cur |-> idx, left |-> dim - 1, coordinate |-> 0 - 1, iterations |-> 0,
     done |-> FALSE]

\* The loop with the condition _dim > j.
BoxStep_Strict(st) ==
    [st EXCEPT !.coordinate = st.cur % st.nboxes,
               !.cur = st.cur \div st.nboxes,
               !.left = st.left - 1,
               !.iterations = st.iterations + 1,
               !.done = ~(st.left - 1 > st.j)]

\* One pass of the body, and the test _dim >= j that follows it.
BoxStep(st) ==
    [st EXCEPT !.coordinate = st.cur % st.nboxes,
               !.cur = st.cur \div st.nboxes,
               !.left = st.left - 1,
               !.iterations = st.iterations + 1,
               !.done = ~(st.left - 1 >= st.j)]

RECURSIVE BoxLoop(_)
BoxLoop(st) == IF st.done THEN st ELSE BoxLoop(BoxStep(st))

GetBoxCoordinate(idx, dim, nboxes, j) ==
    BoxLoop(BoxEntry(idx, dim, nboxes, j)).coordinate

InitBox ==
    \E dim \in 1..MaxDim, nboxes \in 1..MaxBoxes :
        \E idx \in 0..(Power(nboxes, dim) - 1), j \in 0..(dim - 1) :
            /\ Bystander
            /\ probe = BoxEntry(idx, dim, nboxes, j)

LoopBody ==
    /\ probe.kind = "box"
    /\ ~probe.done
    /\ probe' = BoxStep(probe)
    /\ BystanderKept

NextBox == LoopBody

SpecBox == InitBox /\ [][NextBox]_vars

\* The digit of idx at position p in base n, position 0 the least
\* significant.
Digit(idx, n, p) == (idx \div Power(n, p)) % n

\* C29: for dim >= 1, nboxes >= 1, 0 <= j < dim and 0 <= idx < nboxes^dim,
\* GetBoxCoordinate returns the digit of idx in base nboxes at position
\* dim-1-j, a value in [0, nboxes); the coordinates for j = 0..dim-1 give idx
\* back, so that box indices and coordinate tuples correspond one to one;
\* and the loop ends after dim-j passes.
C29_BoxCoordinate ==
    probe.kind = "box" =>
        /\ probe.iterations <= probe.dim - probe.j
        /\ probe.done =>
              /\ probe.iterations = probe.dim - probe.j
              /\ probe.coordinate =
                    Digit(probe.idx, probe.nboxes, probe.dim - 1 - probe.j)
              /\ 0 <= probe.coordinate /\ probe.coordinate < probe.nboxes
              /\ probe.coordinate =
                    GetBoxCoordinate(probe.idx, probe.dim, probe.nboxes,
                                     probe.j)
              /\ probe.idx =
                    SumSeq([i \in 1..probe.dim |->
                        GetBoxCoordinate(probe.idx, probe.dim, probe.nboxes,
                                         i - 1)
                            * Power(probe.nboxes, probe.dim - i)])

\* The loop has ended after more than one pass with a coordinate that is
\* neither the first nor the last digit of the index.
C29_Witness ==
    /\ probe.kind = "box"
    /\ probe.done
    /\ probe.iterations > 1
    /\ probe.j > 0
    /\ probe.coordinate > 0
    /\ probe.coordinate # probe.idx % probe.nboxes

----------------------------------------------------------------------------
\* ProcessCallsVegas::hash(a, b), in unsigned arithmetic of HashBits bits.
HashBits == 6
MaxArg == 7

Modulus == Power(2, HashBits)

\* hash() with the second branch taken always.
hash_NoBranch(a, b) ==
    LET A == (2 * a) % Modulus
        B == (2 * b) % Modulus
    IN  ((A + B * B) % Modulus) \div 2

\* size_t A = 2*a; size_t B = 2*b;
\* size_t C = ((A >= B ? A*A + A + B : A + B*B) / 2);
hash(a, b) ==
    LET A == (2 * a) % Modulus
        B == (2 * b) % Modulus
    IN  (IF A >= B THEN (A * A + A + B) % Modulus
                   ELSE (A + B * B) % Modulus) \div 2

HashProbe(a, b, c, d, first, second, applied) ==
    [kind |-> "hash", a |-> a, b |-> b, c |-> c, d |-> d,
     first |-> first, second |-> second, applied |-> applied]

InitHash ==
    \E a \in 0..MaxArg, b \in 0..MaxArg, c \in 0..MaxArg, d \in 0..MaxArg :
        /\ Bystander
        /\ probe = HashProbe(a, b, c, d, 0, 0, FALSE)

\* The seeds of two engines: GRND randEng(hash(fSeed, box)).
ApplyHash ==
    /\ probe.kind = "hash"
    /\ ~probe.applied
    /\ probe' = HashProbe(probe.a, probe.b, probe.c, probe.d,
                          hash(probe.a, probe.b), hash(probe.c, probe.d), TRUE)
    /\ BystanderKept

NextHash == ApplyHash

SpecHash == InitHash /\ [][NextHash]_vars

\* No product or sum in hash(a, b) passes the largest size_t.
NoOverflow(a, b) ==
    /\ 2 * a < Modulus
    /\ 2 * b < Modulus
    /\ (IF a >= b THEN 4 * a * a + 2 * a + 2 * b
                   ELSE 2 * a + 4 * b * b) < Modulus

\* C30: hash(a, b), the pairing of Szudzik on 2a, 2b, halved, is injective
\* on the pairs for which no intermediate result overflows: for a fixed seed
\* two distinct box indices get distinct engine seeds, and the two orders of
\* an unequal pair get distinct values.
C30_HashInjective ==
    (/\ probe.kind = "hash"
     /\ probe.applied
     /\ NoOverflow(probe.a, probe.b)
     /\ NoOverflow(probe.c, probe.d)) =>
        /\ probe.first = (IF probe.a >= probe.b
                            THEN 2 * probe.a * probe.a + probe.a + probe.b
                            ELSE probe.a + 2 * probe.b * probe.b)
        /\ probe.first = probe.second =>
              (probe.a = probe.c /\ probe.b = probe.d)
        /\ (probe.a = probe.c /\ probe.b # probe.d) =>
              probe.first # probe.second
        /\ (probe.c = probe.b /\ probe.d = probe.a /\ probe.a # probe.b) =>
              probe.first # probe.second

\* The two orders of an unequal pair have been hashed without overflow.
C30_Witness ==
    /\ probe.kind = "hash"
    /\ probe.applied
    /\ NoOverflow(probe.a, probe.b)
    /\ NoOverflow(probe.c, probe.d)
    /\ probe.c = probe.b
    /\ probe.d = probe.a
    /\ probe.a > probe.b
    /\ probe.b > 0

----------------------------------------------------------------------------
\* GReal_t arithmetic of the VEGAS functors: binary floating point with a
\* significand of FloatBits bits, rounded to nearest, ties to even. A value is
\* an integer count of units of 2^-FracBits.
FloatBits == 3

FracBits == 2 * FloatBits + 2

One == Power(2, FracBits)

\* The smallest value that added to 1.0 lies half way to the next number.
HalfUlp == One \div Power(2, FloatBits)

\* The largest power of two not above v, for v >= 1.
RECURSIVE TopFrom(_, _)
TopFrom(v, p) == IF 2 * p > v THEN p ELSE TopFrom(v, 2 * p)

\* The distance between neighbouring numbers at v >= 1.
Spacing(v) == Max(1, TopFrom(v, 1) \div Power(2, FloatBits - 1))

\* The number nearest to num/den >= 0, the even one of two equally near.
RoundRatio(num, den) ==
    LET q == num \div den
        u == IF q = 0 THEN 1 ELSE Spacing(q)
        lo == (q \div u) * u
        twice == 2 * (num - lo * den)
    IN  IF twice < u * den THEN lo
        ELSE IF twice > u * den THEN lo + u
        ELSE IF (lo \div u) % 2 = 0 THEN lo ELSE lo + u

Round(num, den) ==
    IF num < 0 THEN 0 - RoundRatio(0 - num, den) ELSE RoundRatio(num, den)

\* a + b, a / n and a * n in GReal_t, n a whole number.
FAdd(a, b) == Round(a + b, 1)

FDivide(a, n) == Round(a, n)

FTimes(a, n) == Round(a * n, 1)

----------------------------------------------------------------------------
\* ResultVegas<N> and the reducer ProcessBoxesVegas<N>, with DistSlots for
\* N*BINS_MAX.
DistSlots == 2

ResultVegas(integral, tss, dist) ==
    [integral |-> integral, tss |-> tss, fDistribution |-> dist]

\* ResultVegas(): everything zero.
DefaultResult == ResultVegas(0, 0, [i \in 1..DistSlots |-> 0])

\* The reducer dropping the tss of its second argument.
ProcessBoxesVegas_FirstTss(x, y) ==
    ResultVegas(FAdd(0, FAdd(x.integral, y.integral)),
                FAdd(0, x.tss),
                [i \in 1..DistSlots |->
                    FAdd(0, FAdd(x.fDistribution[i], y.fDistribution[i]))])

\* operator()(x, y): a default result, to each member of which the sum of
\* the members of x and y is added.
ProcessBoxesVegas(x, y) ==
    ResultVegas(FAdd(DefaultResult.integral, FAdd(x.integral, y.integral)),
                FAdd(DefaultResult.tss, FAdd(x.tss, y.tss)),
                [i \in 1..DistSlots |->
                    FAdd(DefaultResult.fDistribution[i],
                         FAdd(x.fDistribution[i], y.fDistribution[i]))])

\* Results of boxes: members zero, one, and half a unit in the last place
\* of one.
BoxResults ==
    {ResultVegas(a, b, d) :
        a \in {0, HalfUlp, One}, b \in {0, HalfUlp},
        d \in {[i \in 1..DistSlots |-> 0],
               [i \in 1..DistSlots |-> HalfUlp],
               [i \in 1..DistSlots |-> IF i = 1 THEN One ELSE HalfUlp]}}

SumProbe(x, y, z, applied) ==
    [kind |-> "sum", x |-> x, y |-> y, z |-> z, applied |-> applied,
     xy |-> IF applied THEN ProcessBoxesVegas(x, y) ELSE DefaultResult,
     yx |-> IF applied THEN ProcessBoxesVegas(y, x) ELSE DefaultResult,
     left |-> IF applied
              THEN ProcessBoxesVegas(ProcessBoxesVegas(x, y), z)
              ELSE DefaultResult,
     right |-> IF applied
               THEN ProcessBoxesVegas(x, ProcessBoxesVegas(y, z))
               ELSE DefaultResult,
     withDefault |-> IF applied
                     THEN ProcessBoxesVegas(x, DefaultResult)
                     ELSE DefaultResult,
     defaultWith |-> IF applied
                     THEN ProcessBoxesVegas(DefaultResult, x)
                     ELSE DefaultResult]

InitSum ==
    \E x \in BoxResults, y \in BoxResults, z \in BoxResults :
        /\ Bystander
        /\ probe = SumProbe(x, y, z, FALSE)

\* The reduction of three box results, in its two groupings and with the
\* arguments exchanged; the arguments are taken by const reference.
ReduceBoxes ==
    /\ probe.kind = "sum"
    /\ ~probe.applied
    /\ probe' = SumProbe(probe.x, probe.y, probe.z, TRUE)
    /\ BystanderKept

NextSum == ReduceBoxes

SpecSum == InitSum /\ [][NextSum]_vars

Reduced == probe.kind = "sum" /\ probe.applied

\* r is member by member the rounded sum of x and y.
MemberSum(r, x, y) ==
    /\ r.integral = Round(x.integral + y.integral, 1)
    /\ r.tss = Round(x.tss + y.tss, 1)
    /\ \A i \in 1..DistSlots :
          r.fDistribution[i] = Round(x.fDistribution[i] + y.fDistribution[i], 1)

\* No addition in either grouping of x, y, z is rounded.
ExactSums(x, y, z) ==
    LET Fits(a, b, c) ==
            /\ FAdd(a, b) = a + b
            /\ FAdd(b, c) = b + c
            /\ FAdd(a + b, c) = a + b + c
            /\ FAdd(a, b + c) = a + b + c
    IN  /\ Fits(x.integral, y.integral, z.integral)
        /\ Fits(x.tss, y.tss, z.tss)
        /\ \A i \in 1..DistSlots :
              Fits(x.fDistribution[i], y.fDistribution[i], z.fDistribution[i])

\* The laws of the reducer that do not depend on the grouping.
SumLaws ==
    /\ MemberSum(probe.xy, probe.x, probe.y)
    /\ probe.xy = probe.yx
    /\ probe.withDefault = probe.x
    /\ probe.defaultWith = probe.x

\* C26, as claimed: ProcessBoxesVegas returns the member-by-member sum of its
\* arguments, is commutative and associative and has the default result as
\* identity, so that every grouping of the reduction gives the same total.
C26_SumAssociative == Reduced => (SumLaws /\ probe.left = probe.right)

\* C26, amended: ProcessBoxesVegas returns the member-by-member sum of its
\* arguments rounded to GReal_t, is commutative and has the default result
\* as identity; the two groupings of three results agree when no addition
\* is rounded.
C26_SumRounded ==
    Reduced =>
        /\ SumLaws
        /\ ExactSums(probe.x, probe.y, probe.z) => probe.left = probe.right

\* Three results have been reduced whose two groupings differ, while the
\* two orders of the first two agree.
C26_Witness ==
    /\ Reduced
    /\ probe.left.integral # probe.right.integral
    /\ probe.xy = probe.yx
    /\ probe.x # probe.y

----------------------------------------------------------------------------
\* ProcessCallsVegas<FUNCTOR, NDimensions, GRND>::operator()(box): the calls
\* of one box, dimension by dimension. BINS_MAX bounds the bins of a
\* dimension; CallDims and MaxCalls bound NDimensions and fNCallsPerBox.
BINS_MAX == 2

CallDims == 2

MaxCalls == 2

MODE_STRATIFIED == "stratified"

Modes == {"importance", MODE_STRATIFIED}

\* Values of uniDist(randEng): numbers of GReal_t in [0, 1), the last one
\* the largest of them.
UnitValues == {0, One \div 2, One - HalfUlp}

\* z = ((b + x[j]) / fNBoxesPerDimension) * fNBins, each operation rounded.
BinPosition(b, x, nboxes, nbins) ==
    FTimes(FDivide(FAdd(b * One, x), nboxes), nbins)

\* k = static_cast<GInt_t>(z).
BinIndex(b, x, nboxes, nbins) == BinPosition(b, x, nboxes, nbins) \div One

CallsProbe(mode, nbins, nboxes, nd, ncalls, box) ==
    [kind |-> "calls", fMode |-> mode, fNBins |-> nbins,
     fNBoxesPerDimension |-> nboxes, NDimensions |-> nd,
     fNCallsPerBox |-> ncalls, box |-> box, call |-> 0, j |-> 0,
     bin |-> [d \in 0..(nd - 1) |-> -1], x |-> -1,
     written |-> {}, at |-> "dims"]

InitCalls ==
    \E mode \in Modes, nbins \in 1..BINS_MAX, nboxes \in 1..MaxBoxes,
       nd \in 1..CallDims, ncalls \in 1..MaxCalls :
        \E box \in 0..(Power(nboxes, nd) - 1) :
            /\ Bystander
            /\ probe = CallsProbe(mode, nbins, nboxes, nd, ncalls, box)

\* The indices bin[j]*NDimensions + j of the fDistribution entries added to.
WriteIndices(bin, nd) == {bin[d] * nd + d : d \in 0..(nd - 1)}

\* The body of the loop over j: a number is drawn and its bin stored.
SampleDimension ==
    /\ probe.kind = "calls"
    /\ probe.at = "dims"
    /\ \E x \in UnitValues :
         LET b == GetBoxCoordinate(probe.box, probe.NDimensions,
                                   probe.fNBoxesPerDimension, probe.j)
             k == BinIndex(b, x, probe.fNBoxesPerDimension, probe.fNBins)
         IN  probe' = [probe EXCEPT
                          !.bin[probe.j] = k,
                          !.x = x,
                          !.j = probe.j + 1,
                          !.at = IF probe.j + 1 < probe.NDimensions
                                 THEN "dims" ELSE "call"]
    /\ BystanderKept

\* The rest of the loop over call: outside stratified mode the square of the
\* value is added to the entry of each dimension's bin.
FinishCall ==
    /\ probe.kind = "calls"
    /\ probe.at = "call"
    /\ probe' = [probe EXCEPT
                    !.written = IF probe.fMode # MODE_STRATIFIED
                                THEN @ \cup WriteIndices(probe.bin,
                                                         probe.NDimensions)
                                ELSE @,
                    !.call = probe.call + 1,
                    !.j = 0,
                    !.at = IF probe.call + 1 < probe.fNCallsPerBox
                           THEN "dims" ELSE "box"]
    /\ BystanderKept

\* After the loop: in stratified mode m2 is added to the entries of the
\* bins of the last call.
FinishBox ==
    /\ probe.kind = "calls"
    /\ probe.at = "box"
    /\ probe' = [probe EXCEPT
                    !.written = IF probe.fMode = MODE_STRATIFIED
                                THEN @ \cup WriteIndices(probe.bin,
                                                         probe.NDimensions)
                                ELSE @,
                    !.at = "done"]
    /\ BystanderKept

NextCalls == SampleDimension \/ FinishCall \/ FinishBox

SpecCalls == InitCalls /\ [][NextCalls]_vars

\* C27: every bin index stored in bin[] is in [0, fNBins), and every index of
\* fDistribution written, per call or after the loop, is in
\* [0, NDimensions*BINS_MAX).
C27_BinInRange ==
    probe.kind = "calls" =>
        /\ \A d \in 0..(probe.NDimensions - 1) :
              probe.bin[d] = -1 \/ probe.bin[d] \in 0..(probe.fNBins - 1)
        /\ \A i \in probe.written :
              i \in 0..(probe.NDimensions * BINS_MAX - 1)

----------------------------------------------------------------------------
\* BaseFunctor<Functor, ReturnType, NPARAM> instantiated with one parameter:
\* two functor objects and the Parameter objects of the client their
\* pointers may refer to. A pointer is the number of a Parameter, 0 when it
\* is indeterminate.
NPARAM == 1

NumParameters == 2

\* This functor and another one.
Functors == {"f", "g"}

Parameters == 1..NumParameters

ParameterValues == {0, 1}

\* The members of a functor, with two records of its history: whether
\* RegistryParameters was called on it since it was constructed or last
\* target of an assignment, and the same counting only assignments from
\* another object.
Functor(index, cached, registered, pointers, since, sinceOther) ==
    [fCacheIndex |-> index, fCached |-> cached,
     fParamResgistered |-> registered, fParameters |-> pointers,
     since |-> since, sinceOther |-> sinceOther]

Indeterminate == [i \in 1..NPARAM |-> 0]

\* BaseFunctor().
BaseFunctor == Functor(-1, FALSE, FALSE, Indeterminate, FALSE, FALSE)

\* BaseFunctor(other) with the flag of the other object taken over.
BaseFunctorCopy_KeepFlag(other) ==
    Functor(other.fCacheIndex, other.fCached, other.fParamResgistered,
            other.fParameters, FALSE, FALSE)

\* BaseFunctor(other).
BaseFunctorCopy(other) ==
    Functor(other.fCacheIndex, other.fCached, FALSE, Indeterminate,
            FALSE, FALSE)

\* operator=(other); same tells that other is this very object.
AssignFunctor(self, other, same) ==
    IF ~same
    THEN Functor(other.fCacheIndex, other.fCached, FALSE, self.fParameters,
                 FALSE, FALSE)
    ELSE [self EXCEPT !.since = FALSE]

\* SetParameters without the test of fCached.
SetParameters_NoCacheTest(self, values, parameters) ==
    IF ~self.fParamResgistered
    THEN [values |-> values, touched |-> {}]
    ELSE [values |-> [q \in Parameters |->
                        IF \E i \in 1..NPARAM : self.fParameters[i] = q
                        THEN parameters[q] ELSE values[q]],
          touched |-> {self.fParameters[i] : i \in 1..NPARAM}]

\* SetParameters(parameters): the values of the Parameter objects after the
\* call and the pointers it dereferenced. parameters[q] is the entry at
\* the index of Parameter q.
SetParameters(self, values, parameters) ==
    IF self.fCached \/ ~self.fParamResgistered
    THEN [values |-> values, touched |-> {}]
    ELSE [values |-> [q \in Parameters |->
                        IF \E i \in 1..NPARAM : self.fParameters[i] = q
                        THEN parameters[q] ELSE values[q]],
          touched |-> {self.fParameters[i] : i \in 1..NPARAM}]

FunctorProbe(objects, values, op, target, other, before, previous, touched) ==
    [kind |-> "functor", objects |-> objects, values |-> values, op |-> op,
     target |-> target, other |-> other, before |-> before,
     previous |-> previous, touched |-> touched]

InitFunctor ==
    /\ Bystander
    /\ probe = FunctorProbe([f \in Functors |-> BaseFunctor],
                            [q \in Parameters |-> 0],
                            "construct", "f", "f", BaseFunctor,
                            [q \in Parameters |-> 0], {})

\* One operation on functor f, leaving objects and values as given.
FunctorStep(op, f, other, objects, values, touched) ==
    /\ probe.kind = "functor"
    /\ probe' = FunctorProbe(objects, values, op, f, other,
                             probe.objects[f], probe.values, touched)
    /\ BystanderKept

Construct ==
    \E f \in Functors :
        FunctorStep("construct", f, f,
                    [probe.objects EXCEPT ![f] = BaseFunctor],
                    probe.values, {})

CopyConstructFunctor ==
    \E f \in Functors, g \in Functors :
        /\ f # g
        /\ FunctorStep("copy", f, g,
                       [probe.objects EXCEPT
                           ![f] = BaseFunctorCopy(probe.objects[g])],
                       probe.values, {})

AssignFunctorFrom ==
    \E f \in Functors, g \in Functors :
        FunctorStep("assign", f, g,
                    [probe.objects EXCEPT
                        ![f] = AssignFunctor(probe.objects[f],
                                             probe.objects[g], f = g)],
                    probe.values, {})

SetCached ==
    \E f \in Functors, cached \in BOOLEAN :
        FunctorStep("cache", f, f,
                    [probe.objects EXCEPT ![f].fCached = cached],
                    probe.values, {})

\* RegistryParameters(var_list) in host code, the list naming NPARAM
\* parameters.
RegistryParameters ==
    \E f \in Functors, var_list \in [1..NPARAM -> Parameters] :
        FunctorStep("registry", f, f,
                    [probe.objects EXCEPT
                        ![f].fParameters = var_list,
                        ![f].fParamResgistered = TRUE,
                        ![f].since = TRUE,
                        ![f].sinceOther = TRUE],
                    probe.values, {})

CallSetParameters ==
    \E f \in Functors, parameters \in [Parameters -> ParameterValues] :
        LET after == SetParameters(probe.objects[f], probe.values, parameters)
        IN  FunctorStep("set", f, f, probe.objects, after.values,
                        after.touched)

NextFunctor ==
    \/ Construct
    \/ CopyConstructFunctor
    \/ AssignFunctorFrom
    \/ SetCached
    \/ RegistryParameters
    \/ CallSetParameters

SpecFunctor == InitFunctor /\ [][NextFunctor]_vars

\* SetParameters was the last operation, on the functor Target.
ParametersSet == probe.kind = "functor" /\ probe.op = "set"

Target == probe.objects[probe.target]

\* The last operation made Target from another object, by copy construction
\* or assignment.
MadeFromOther ==
    /\ probe.kind = "functor"
    /\ probe.op \in {"copy", "assign"}
    /\ probe.other # probe.target

SelfAssigned ==
    /\ probe.kind = "functor"
    /\ probe.op = "assign"
    /\ probe.other = probe.target

\* SetParameters wrote nothing and followed no pointer.
NothingSet == probe.values = probe.previous /\ probe.touched = {}

\* The registered flag is cleared and no pointer was taken over: those of a
\* new object are indeterminate, those of an assigned one are its own.
FlagCleared ==
    /\ ~Target.fParamResgistered
    /\ probe.op = "copy" => Target.fParameters = Indeterminate
    /\ probe.op = "assign" => Target.fParameters = probe.before.fParameters

\* C28, as claimed: SetParameters writes values only when the functor is not
\* cached and was registered since it was constructed or last assigned to,
\* and otherwise writes nothing and follows no pointer; copy construction
\* and every assignment clear the registered flag and copy no pointer.
C28_SetOnlyRegistered ==
    /\ ParametersSet =>
          \/ ~Target.fCached /\ Target.since
          \/ NothingSet
    /\ (MadeFromOther \/ SelfAssigned) => FlagCleared

\* C28, amended: the same with "assigned to" read as assigned from another
\* object; copy construction and assignment from another object clear the
\* flag and copy no pointer, and self-assignment leaves the functor as it
\* was, registration included.
C28_SetOnlyRegisteredFromOther ==
    /\ ParametersSet =>
          \/ ~Target.fCached /\ Target.sinceOther
          \/ NothingSet
    /\ ParametersSet /\ ~NothingSet =>
          /\ 0 \notin probe.touched
          /\ \A q \in Parameters \ probe.touched :
                probe.values[q] = probe.previous[q]
    /\ MadeFromOther => FlagCleared
    /\ SelfAssigned =>
          /\ Target.fParamResgistered = probe.before.fParamResgistered
          /\ Target.fCached = probe.before.fCached
          /\ Target.fParameters = probe.before.fParameters

\* SetParameters has changed a value on a functor registered, then assigned
\* to itself.
C28_Witness ==
    /\ ParametersSet
    /\ probe.values # probe.previous
    /\ Target.sinceOther /\ ~Target.since

====
